---- MODULE Spec2Model ----
(***************************************************************************)
(* A model of the RPC transaction record (crates/rpc-types-eth,            *)
(* transaction/mod.rs) and of the provider components it is used with      *)
(* (crates/provider, provider/mod.rs): the serde form of Transaction, its  *)
(* conversion to a TransactionRequest, the TransactionResponse accessors,  *)
(* the lazy call builder, the filter poller and the wallet provider.       *)
(***************************************************************************)
EXTENDS Integers, Sequences, FiniteSets, TLC

VARIABLES
    tx,         \* the Transaction value the client holds
    wire,       \* the JSON object last written or received: a sequence of key/value pairs
    origin,     \* where wire came from: "none", "encoded" (serde_json::to_string) or "node"
    decoded,    \* the result of serde_json::from_str on wire
    result      \* what the client's last call returned: an into_request, or the
                \* TransactionResponse accessors, with the transaction it was made on

VARIABLES
    callState,  \* per call builder: "Unresolved", "Pending" or "Resolved"
    maps,       \* per call builder: how many map(f) are composed on it
    polls,      \* per call builder: how often it has been polled
    requests,   \* per call builder: how many requests the transport has received for it
    reply,      \* per call builder: what the transport has answered, "none" until it has
    outcome     \* per call builder: the resolved value or error, "none" until resolved

VARIABLES
    pollerState,    \* "Created", "Polling" or "Terminated"
    reason,         \* why the poller terminated, "none" until it has
    responses,      \* the get_filter_changes results received, in poll order
    channel,        \* the batches emitted and not yet received by the consumer
    observed,       \* the batches the consumer has received, in order
    errors          \* how many errors were surfaced to the consumer

VARIABLES
    given,          \* the SendableTx handed to the wallet provider
    signer,         \* the signer capability: "none", "accepts" or "rejects"
    req,            \* the required fields set in the request being filled
    tried,          \* the fields a fill was attempted for
    walletPc,       \* "idle", "filling", "signing", "submitting" or "done"
    calls,          \* the RPC methods called, in order
    submitted,      \* the raw transactions submitted: the fields each one had
    walletResult    \* what the submission returned, "none" until it has

txVars == <<tx, wire, origin, decoded, result>>
callVars == <<callState, maps, polls, requests, reply, outcome>>
pollerVars == <<pollerState, reason, responses, channel, observed, errors>>
walletVars == <<given, signer, req, tried, walletPc, calls, submitted, walletResult>>

vars == <<txVars, callVars, pollerVars, walletVars>>

(***************************************************************************)
(* Option<T>: None and Some(x), for numbers and for strings.               *)
(***************************************************************************)
Some(x) == [some |-> TRUE, v |-> x]
NoneQ == [some |-> FALSE, v |-> 0]
NoneS == [some |-> FALSE, v |-> ""]

(***************************************************************************)
(* Values the tests of transaction/mod.rs build their transactions from.   *)
(***************************************************************************)
TestChainId == 17
TestNonce == 2
TestMaxFeePerGas == 21
TestMaxPriorityFeePerGas == 22
TestGasLimit == 10
TestValue == 8
TestR == 14
TestGasPrice == 0
TestBlockNumber == 4
TestTransactionIndex == 5
\* The largest EIP-155 v value the model draws; 35 is the smallest there is.
MaxEip155V == 36

TxTypes == {"Legacy", "Eip2930", "Eip1559", "Eip4844", "Eip7702"}

\* The `type` quantity that tags each variant on the wire.
TypeTag(ty) ==
    CASE ty = "Legacy" -> 0
      [] ty = "Eip2930" -> 1
      [] ty = "Eip1559" -> 2
      [] ty = "Eip4844" -> 3
      [] ty = "Eip7702" -> 4

\* alloy_primitives::Parity: Eip155(v), NonEip155(bool) or Parity(bool).
Parities ==
    {[kind |-> "Eip155", v |-> n] : n \in 35..MaxEip155V}
    \cup {[kind |-> "NonEip155", v |-> b] : b \in {0, 1}}
    \cup {[kind |-> "Parity", v |-> b] : b \in {0, 1}}

\* Parity::try_from(u64), as Signature::from_rs_and_parity(.., 36) uses it.
ParityFromU64(n) ==
    CASE n \in {0, 1} -> [ok |-> TRUE, p |-> [kind |-> "Parity", v |-> n]]
      [] n \in {27, 28} -> [ok |-> TRUE, p |-> [kind |-> "NonEip155", v |-> n - 27]]
      [] n >= 35 -> [ok |-> TRUE, p |-> [kind |-> "Eip155", v |-> n]]
      [] OTHER -> [ok |-> FALSE, p |-> [kind |-> "Parity", v |-> 0]]

Addresses == {"0x06", "0x0a"}
Recipients == {NoneS, Some("0x07")}

\* alloy_primitives::TxKind: Create, or Call(address).
Create == [kind |-> "Create", addr |-> ""]
Call(a) == [kind |-> "Call", addr |-> a]
TxKinds == {Create, Call("0x07")}

(***************************************************************************)
(* TxEnvelope: one record shape for the five variants; a field another     *)
(* variant owns is None.  `to` is a TxKind.                                *)
(***************************************************************************)
Envelope(ty, to_, parity) ==
    [type |-> ty,
     chain_id |-> IF ty = "Legacy" THEN NoneQ ELSE Some(TestChainId),
     nonce |-> TestNonce,
     gas_price |-> IF ty \in {"Legacy", "Eip2930"} THEN Some(TestGasPrice) ELSE NoneQ,
     gas_limit |-> TestGasLimit,
     max_fee_per_gas |-> IF ty \in {"Legacy", "Eip2930"} THEN NoneQ ELSE Some(TestMaxFeePerGas),
     max_priority_fee_per_gas |->
        IF ty \in {"Legacy", "Eip2930"} THEN NoneQ ELSE Some(TestMaxPriorityFeePerGas),
     max_fee_per_blob_gas |-> IF ty = "Eip4844" THEN Some(TestMaxFeePerGas) ELSE NoneQ,
     to |-> to_,
     value |-> TestValue,
     access_list |-> IF ty = "Legacy" THEN NoneS ELSE Some("[]"),
     authorization_list |-> IF ty = "Eip7702" THEN Some("[auth]") ELSE NoneS,
     blob_versioned_hashes |-> IF ty = "Eip4844" THEN Some("[0x01]") ELSE NoneS,
     input |-> "0x0b0c0d",
     r |-> TestR,
     s |-> TestR,
     parity |-> parity,
     hash |-> "0x01"]

Envelopes == {Envelope(ty, to_, p) : ty \in TxTypes, to_ \in TxKinds, p \in Parities}

BlockHashes == {NoneS, Some("0x03")}
BlockNumbers == {NoneQ, Some(TestBlockNumber)}
TransactionIndexes == {NoneQ, Some(TestTransactionIndex)}

\* pub struct Transaction<T = TxEnvelope>
Transaction(e, bh, bn, ti, sender) ==
    [tx |-> e, block_hash |-> bh, block_number |-> bn, transaction_index |-> ti, from |-> sender]

Transactions ==
    {Transaction(e, bh, bn, ti, a) :
        e \in Envelopes, bh \in BlockHashes, bn \in BlockNumbers,
        ti \in TransactionIndexes, a \in Addresses}

(***************************************************************************)
(* Quantities: minimal hex strings, held as their digits after "0x".       *)
(***************************************************************************)
RECURSIVE ToHex(_)
ToHex(n) == IF n < 16 THEN <<n>> ELSE Append(ToHex(n \div 16), n % 16)

RECURSIVE HexValue(_)
HexValue(d) == IF Len(d) = 0 THEN 0 ELSE 16 * HexValue(SubSeq(d, 1, Len(d) - 1)) + d[Len(d)]

\* -1: the string is no quantity (no digit, or a leading zero).
FromHex(d) == IF Len(d) = 0 \/ (Len(d) > 1 /\ d[1] = 0) THEN -1 ELSE HexValue(d)

(***************************************************************************)
(* JSON objects: sequences of members, in the order they are written.      *)
(***************************************************************************)
JHex(key, n) == [key |-> key, k |-> "hex", d |-> ToHex(n), a |-> ""]
JStr(key, s) == [key |-> key, k |-> "str", d |-> <<>>, a |-> s]
JNull(key) == [key |-> key, k |-> "null", d |-> <<>>, a |-> ""]
JAbsent(key) == [key |-> key, k |-> "absent", d |-> <<>>, a |-> ""]

HasKey(j, key) == \E i \in 1..Len(j) : j[i].key = key
Get(j, key) ==
    IF HasKey(j, key) THEN j[CHOOSE i \in 1..Len(j) : j[i].key = key] ELSE JAbsent(key)

\* A member that is skipped when its value is None.
SkipNoneHex(key, o) == IF o.some THEN <<JHex(key, o.v)>> ELSE <<>>
SkipNoneStr(key, o) == IF o.some THEN <<JStr(key, o.v)>> ELSE <<>>
\* The recipient is skipped for a contract creation.
SkipCreate(key, kind) == IF kind.kind = "Call" THEN <<JStr(key, kind.addr)>> ELSE <<>>

\* The key the signature's recovery id is written under: the tests write the
\* same Eip7702 envelope with parity 36 under "v" and with Parity(true) under
\* "yParity".
\* (SignatureKeyByVariant: the key chosen by the envelope variant instead.)
SignatureKeyByVariant(e) == IF e.type \in {"Legacy", "Eip2930"} THEN "v" ELSE "yParity"
SignatureKey(e) == IF e.parity.kind = "Parity" THEN "yParity" ELSE "v"

\* The value written under it: v for Eip155, 27/28 for NonEip155, the bit for Parity.
SignatureV(p) == IF p.kind = "NonEip155" THEN p.v + 27 ELSE p.v

SerializeEnvelope(e) ==
    <<JHex("type", TypeTag(e.type))>>
    \o SkipNoneHex("chainId", e.chain_id)
    \o <<JHex("nonce", e.nonce)>>
    \o SkipNoneHex("gasPrice", e.gas_price)
    \o <<JHex("gas", e.gas_limit)>>
    \o SkipNoneHex("maxFeePerGas", e.max_fee_per_gas)
    \o SkipNoneHex("maxPriorityFeePerGas", e.max_priority_fee_per_gas)
    \o SkipNoneHex("maxFeePerBlobGas", e.max_fee_per_blob_gas)
    \o SkipCreate("to", e.to)
    \o <<JHex("value", e.value)>>
    \o SkipNoneStr("accessList", e.access_list)
    \o SkipNoneStr("authorizationList", e.authorization_list)
    \o SkipNoneStr("blobVersionedHashes", e.blob_versioned_hashes)
    \o <<JStr("input", e.input), JHex("r", e.r), JHex("s", e.s)>>
    \o <<JHex(SignatureKey(e), SignatureV(e.parity))>>
    \o <<JStr("hash", e.hash)>>

\* alloy_serde::quantity::opt, and Option<BlockHash>: None is written as null.
NullableHex(key, o) == IF o.some THEN JHex(key, o.v) ELSE JNull(key)
NullableStr(key, o) == IF o.some THEN JStr(key, o.v) ELSE JNull(key)

\* #[derive(Serialize)] #[serde(rename_all = "camelCase")] on Transaction.
SerializeTransaction(t) ==
    SerializeEnvelope(t.tx)
    \o <<NullableStr("blockHash", t.block_hash),
         NullableHex("blockNumber", t.block_number),
         NullableHex("transactionIndex", t.transaction_index),
         JStr("from", t.from)>>

(***************************************************************************)
(* Deserialization.  A quantity member is read with FromHex; -1 stands for *)
(* a member that is missing, null or no quantity where one is required.    *)
(***************************************************************************)
Quantity(j, key) == IF Get(j, key).k = "hex" THEN FromHex(Get(j, key).d) ELSE -1

\* An Option<String>-like member: missing and null both read as None.
OptionalStr(j, key) == IF Get(j, key).k = "str" THEN Some(Get(j, key).a) ELSE NoneS

TypeOfTag(n) ==
    CASE n = 0 -> "Legacy"
      [] n = 1 -> "Eip2930"
      [] n = 2 -> "Eip1559"
      [] n = 3 -> "Eip4844"
      [] n = 4 -> "Eip7702"
      [] OTHER -> "Unknown"

\* The signature's parity: from "v" when the object has it, else from "yParity".
DeserializeParity(j) ==
    IF HasKey(j, "v")
    THEN IF Quantity(j, "v") < 0
         THEN [ok |-> FALSE, p |-> [kind |-> "Parity", v |-> 0]]
         ELSE ParityFromU64(Quantity(j, "v"))
    ELSE IF Quantity(j, "yParity") \in {0, 1}
         THEN [ok |-> TRUE, p |-> [kind |-> "Parity", v |-> Quantity(j, "yParity")]]
         ELSE [ok |-> FALSE, p |-> [kind |-> "Parity", v |-> 0]]

\* The quantity members a variant requires, beyond those every variant has.
RequiredQuantities(ty) ==
    {"nonce", "gas", "value", "r", "s"}
    \cup (IF ty = "Legacy" THEN {} ELSE {"chainId"})
    \cup (IF ty \in {"Legacy", "Eip2930"}
          THEN {"gasPrice"} ELSE {"maxFeePerGas", "maxPriorityFeePerGas"})
    \cup (IF ty = "Eip4844" THEN {"maxFeePerBlobGas"} ELSE {})

RequiredStrings(ty) ==
    {"input", "hash"}
    \cup (IF ty = "Legacy" THEN {} ELSE {"accessList"})
    \cup (IF ty = "Eip7702" THEN {"authorizationList"} ELSE {})
    \cup (IF ty = "Eip4844" THEN {"blobVersionedHashes"} ELSE {})

OptionalQuantity(j, key, wanted) == IF wanted THEN Some(Quantity(j, key)) ELSE NoneQ
OptionalString(j, key, wanted) == IF wanted THEN Some(Get(j, key).a) ELSE NoneS

\* The envelope read from the object's members; a member of another variant's
\* pricing family (a gasPrice beside maxFeePerGas) is not read.
EnvelopeOfJson(j, ty, parity) ==
    [type |-> ty,
     chain_id |-> OptionalQuantity(j, "chainId", ty # "Legacy"),
     nonce |-> Quantity(j, "nonce"),
     gas_price |-> OptionalQuantity(j, "gasPrice", ty \in {"Legacy", "Eip2930"}),
     gas_limit |-> Quantity(j, "gas"),
     max_fee_per_gas |-> OptionalQuantity(j, "maxFeePerGas", ty \notin {"Legacy", "Eip2930"}),
     max_priority_fee_per_gas |->
        OptionalQuantity(j, "maxPriorityFeePerGas", ty \notin {"Legacy", "Eip2930"}),
     max_fee_per_blob_gas |-> OptionalQuantity(j, "maxFeePerBlobGas", ty = "Eip4844"),
     to |-> IF Get(j, "to").k = "str" THEN Call(Get(j, "to").a) ELSE Create,
     value |-> Quantity(j, "value"),
     access_list |-> OptionalString(j, "accessList", ty # "Legacy"),
     authorization_list |-> OptionalString(j, "authorizationList", ty = "Eip7702"),
     blob_versioned_hashes |-> OptionalString(j, "blobVersionedHashes", ty = "Eip4844"),
     input |-> Get(j, "input").a,
     r |-> Quantity(j, "r"),
     s |-> Quantity(j, "s"),
     parity |-> parity,
     hash |-> Get(j, "hash").a]

DefaultEnvelope == Envelope("Legacy", Create, [kind |-> "Eip155", v |-> 36])

DeserializeEnvelope(j) ==
    LET ty == TypeOfTag(Quantity(j, "type"))
        par == DeserializeParity(j)
    IN  IF /\ ty \in TxTypes
           /\ par.ok
           /\ \A key \in RequiredQuantities(ty) : Quantity(j, key) >= 0
           /\ \A key \in RequiredStrings(ty) : Get(j, key).k = "str"
        THEN [ok |-> TRUE, e |-> EnvelopeOfJson(j, ty, par.p)]
        ELSE [ok |-> FALSE, e |-> DefaultEnvelope]

\* #[serde(default)] Option<BlockHash>: a missing or null member is None.
DeserializeBlockHash(j) == OptionalStr(j, "blockHash")

\* #[serde(default, with = "alloy_serde::quantity::opt")]: a missing or null
\* member is None, a quantity is Some, anything else fails the decode.
OptMemberOk(j, key) == Get(j, key).k \in {"absent", "null"} \/ Quantity(j, key) >= 0
\* (DeserializeBlockNumberNullAsZero: a null member read as Some(0).)
DeserializeBlockNumberNullAsZero(j) ==
    IF Get(j, "blockNumber").k \in {"hex", "null"}
    THEN Some(IF Quantity(j, "blockNumber") < 0 THEN 0 ELSE Quantity(j, "blockNumber"))
    ELSE NoneQ
DeserializeBlockNumber(j) ==
    IF Get(j, "blockNumber").k = "hex" THEN Some(Quantity(j, "blockNumber")) ELSE NoneQ
\* (DeserializeTransactionIndexSnakeCase: the member looked up without the
\* camelCase renaming.)
DeserializeTransactionIndexSnakeCase(j) ==
    IF Get(j, "transaction_index").k = "hex"
    THEN Some(Quantity(j, "transaction_index")) ELSE NoneQ
DeserializeTransactionIndex(j) ==
    IF Get(j, "transactionIndex").k = "hex"
    THEN Some(Quantity(j, "transactionIndex")) ELSE NoneQ

DefaultTransaction == Transaction(DefaultEnvelope, NoneS, NoneQ, NoneQ, "0x00")
NotDecoded == [st |-> "none"]
DecodeError == [st |-> "err"]

\* #[derive(Deserialize)] #[serde(rename_all = "camelCase")] on Transaction:
\* the flattened envelope, the three optional block members, the required from.
DeserializeTransaction(j) ==
    IF /\ DeserializeEnvelope(j).ok
       /\ Get(j, "blockHash").k \in {"absent", "null", "str"}
       /\ OptMemberOk(j, "blockNumber")
       /\ OptMemberOk(j, "transactionIndex")
       /\ Get(j, "from").k = "str"
    THEN [st |-> "ok",
          t |-> Transaction(DeserializeEnvelope(j).e, DeserializeBlockHash(j),
                            DeserializeBlockNumber(j), DeserializeTransactionIndex(j),
                            Get(j, "from").a)]
    ELSE DecodeError

(***************************************************************************)
(* Transaction (impl block) and the conversion to a TransactionRequest.    *)
(***************************************************************************)
\* matches!(self.tx, TxEnvelope::Legacy(_) | TxEnvelope::Eip2930(_))
\* (is_legacy_gas_legacy_only: the Eip2930 arm of the match left out.)
is_legacy_gas_legacy_only(t) == t.tx.type = "Legacy"
is_legacy_gas(t) == t.tx.type \in {"Legacy", "Eip2930"}

\* impl From<TxEnvelope> for TransactionRequest: every field optional; the
\* envelope's own pricing family is carried over, `from` and `sidecar` are
\* not part of the envelope and stay None.
EnvelopeToRequest(e) ==
    [from |-> NoneS,
     to |-> Some(e.to),
     gas_price |-> e.gas_price,
     max_fee_per_gas |-> e.max_fee_per_gas,
     max_priority_fee_per_gas |-> e.max_priority_fee_per_gas,
     max_fee_per_blob_gas |-> e.max_fee_per_blob_gas,
     gas |-> Some(e.gas_limit),
     value |-> Some(e.value),
     input |-> Some(e.input),
     nonce |-> Some(e.nonce),
     chain_id |-> e.chain_id,
     access_list |-> e.access_list,
     transaction_type |-> Some(TypeTag(e.type)),
     blob_versioned_hashes |-> e.blob_versioned_hashes,
     sidecar |-> NoneS,
     authorization_list |-> e.authorization_list]

\* pub fn into_request(self) -> TransactionRequest { self.tx.into() }
\* (into_request_both_prices: a conversion that also reads the trait's
\* max_fee_per_gas(), which is the gas price for a legacy-gas envelope;
\* into_request_with_sender: one that copies the record's sender.)
into_request_both_prices(t) ==
    [EnvelopeToRequest(t.tx) EXCEPT
        !.max_fee_per_gas = IF t.tx.gas_price.some THEN t.tx.gas_price ELSE @]
into_request_with_sender(t) == [EnvelopeToRequest(t.tx) EXCEPT !.from = Some(t.from)]
into_request(t) == EnvelopeToRequest(t.tx)

\* The address the envelope's signature recovers to: some function of the
\* signed payload, which need not be the record's `from`.
recover_signer(e) == IF e.parity.v % 2 = 0 THEN "0x06" ELSE "0x0a"

\* impl TransactionResponse for Transaction
tx_hash(t) == t.tx.hash
\* (from_recovered: the sender recovered from the signature instead.)
from_recovered(t) == recover_signer(t.tx)
from(t) == t.from
\* self.tx.to().to().copied(): the address of a Call, None for a Create.
to(t) == IF t.tx.to.kind = "Call" THEN Some(t.tx.to.addr) ELSE NoneS
value(t) == t.tx.value
gas(t) == t.tx.gas_limit
input(t) == t.tx.input

TransactionResponseOf(t) ==
    [op |-> "response", inst |-> "TxEnvelope", of |-> t, tx_hash |-> tx_hash(t), from |-> from(t),
     to |-> to(t), value |-> value(t), gas |-> gas(t), input |-> input(t)]

\* AnyTxEnvelope: the loosely typed envelope, with the fields the accessors read.
AnyTxEnvelopes ==
    {[hash |-> "0x02", to |-> r, value |-> TestValue + 1, gas |-> TestGasLimit + 1,
      input |-> "0x", signer |-> "0x06"] : r \in Recipients}

AnyTransactions == {Transaction(e, Some("0x03"), NoneQ, NoneQ, "0x0a") : e \in AnyTxEnvelopes}

\* impl TransactionResponse for Transaction<AnyTxEnvelope>
any_tx_hash(t) == t.tx.hash
any_from(t) == t.from
any_to(t) == t.tx.to
any_value(t) == t.tx.value
any_gas(t) == t.tx.gas
any_input(t) == t.tx.input

AnyTransactionResponseOf(t) ==
    [op |-> "response", inst |-> "AnyTxEnvelope", of |-> t, tx_hash |-> any_tx_hash(t), from |-> any_from(t),
     to |-> any_to(t), value |-> any_value(t), gas |-> any_gas(t), input |-> any_input(t)]

(***************************************************************************)
(* What a node may send for the client's transaction: the canonical form,  *)
(* or one of the shapes nodes are seen to send (the tests' RPC responses   *)
(* carry a gasPrice beside maxFeePerGas, "v":"0x0" for a parity bit and    *)
(* the block members first), or a malformed one.                           *)
(***************************************************************************)
NodeShapes ==
    {"canonical", "omitNull", "gasPrice", "vForParity", "blockFirst", "badQuantity", "noFrom"}

BlockKeys == {"blockHash", "blockNumber", "transactionIndex"}

IsBlockMember(m) == m.key \in BlockKeys
IsOtherMember(m) == m.key \notin BlockKeys
IsNotNull(m) == m.k # "null"
IsNotFrom(m) == m.key # "from"

NodeJson(t, shape) ==
    LET j == SerializeTransaction(t)
    IN  CASE shape = "omitNull" -> SelectSeq(j, IsNotNull)
          [] shape = "gasPrice" ->
                IF HasKey(j, "gasPrice") THEN j ELSE Append(j, JHex("gasPrice", TestMaxFeePerGas))
          [] shape = "vForParity" ->
                [i \in 1..Len(j) |->
                    IF j[i].key = "yParity" THEN [j[i] EXCEPT !.key = "v"] ELSE j[i]]
          [] shape = "blockFirst" -> SelectSeq(j, IsBlockMember) \o SelectSeq(j, IsOtherMember)
          [] shape = "badQuantity" ->
                [i \in 1..Len(j) |->
                    IF j[i].key = "nonce" THEN [j[i] EXCEPT !.d = <<0>> \o @] ELSE j[i]]
          [] shape = "noFrom" -> SelectSeq(j, IsNotFrom)
          [] OTHER -> j

(***************************************************************************)
(* The client's operations on its transaction.                             *)
(***************************************************************************)
NoResult == [op |-> "none"]

\* The component at rest: the client holds no transaction.
NoTransaction == [held |-> FALSE]

IdleTx ==
    /\ tx = NoTransaction
    /\ wire = <<>>
    /\ origin = "none"
    /\ decoded = NotDecoded
    /\ result = NoResult

InitTx ==
    /\ tx \in Transactions
    /\ wire = <<>>
    /\ origin = "none"
    /\ decoded = NotDecoded
    /\ result = NoResult

\* serde_json::to_string(&transaction)
Serialize ==
    /\ wire' = SerializeTransaction(tx)
    /\ origin' = "encoded"
    /\ decoded' = NotDecoded
    /\ UNCHANGED <<tx, result, callVars, pollerVars, walletVars>>

\* The node answers eth_getTransactionByHash.
NodeResponse ==
    \E shape \in NodeShapes :
        /\ wire' = NodeJson(tx, shape)
        /\ origin' = "node"
        /\ decoded' = NotDecoded
        /\ UNCHANGED <<tx, result, callVars, pollerVars, walletVars>>

\* serde_json::from_str::<Transaction>(wire)
Deserialize ==
    /\ origin # "none"
    /\ decoded' = DeserializeTransaction(wire)
    /\ UNCHANGED <<tx, wire, origin, result, callVars, pollerVars, walletVars>>

\* The transactions the client holds: its own, and the one it decoded.
Held == {tx} \cup (IF decoded.st = "ok" THEN {decoded.t} ELSE {})

IntoRequest ==
    \E t \in Held :
        /\ result' = [op |-> "into_request", of |-> t, r |-> into_request(t)]
        /\ UNCHANGED <<tx, wire, origin, decoded, callVars, pollerVars, walletVars>>

IsLegacyGas ==
    \E t \in Held :
        /\ result' = [op |-> "is_legacy_gas", of |-> t, r |-> is_legacy_gas(t)]
        /\ UNCHANGED <<tx, wire, origin, decoded, callVars, pollerVars, walletVars>>

CallResponse ==
    \E t \in Held :
        /\ result' = TransactionResponseOf(t)
        /\ UNCHANGED <<tx, wire, origin, decoded, callVars, pollerVars, walletVars>>

CallResponseAny ==
    \E t \in AnyTransactions :
        /\ result' = AnyTransactionResponseOf(t)
        /\ UNCHANGED <<tx, wire, origin, decoded, callVars, pollerVars, walletVars>>

(***************************************************************************)
(* ProviderCall: the lazy call builder.  Unresolved(method, params) ->     *)
(* Pending(in-flight request) -> Resolved(value or error).                 *)
(***************************************************************************)
Calls == {"c1", "c2"}
MaxMaps == 2
MaxPolls == 3
Replies == {"ok", "transport_error", "malformed"}

IdleCall ==
    /\ callState = [c \in Calls |-> "Unresolved"]
    /\ maps = [c \in Calls |-> 0]
    /\ polls = [c \in Calls |-> 0]
    /\ requests = [c \in Calls |-> 0]
    /\ reply = [c \in Calls |-> "none"]
    /\ outcome = [c \in Calls |-> "none"]

\* The first poll issues the request; no later poll does.
\* (RequestsAfterPollAlways: every poll issues it.)
RequestsAfterPollAlways(st, n) == n + 1
RequestsAfterPoll(st, n) == IF st = "Unresolved" THEN n + 1 ELSE n

StateAfterPoll(st, rep) ==
    CASE st = "Unresolved" -> "Pending"
      [] st = "Pending" -> IF rep = "none" THEN "Pending" ELSE "Resolved"
      [] OTHER -> "Resolved"

\* The typed call decodes the reply; a malformed one is a decode error.
OutcomeOf(rep) ==
    CASE rep = "ok" -> "Value"
      [] rep = "transport_error" -> "TransportFailure"
      [] OTHER -> "DecodeError"

OutcomeAfterPoll(st, rep, out) == IF st = "Pending" /\ rep # "none" THEN OutcomeOf(rep) ELSE out

\* map(f): a new builder around this one; nothing is executed.
Map(c) ==
    /\ maps[c] < MaxMaps
    /\ maps' = [maps EXCEPT ![c] = @ + 1]
    /\ UNCHANGED <<callState, polls, requests, reply, outcome, txVars, pollerVars, walletVars>>

\* One poll of the (mapped) builder.
Poll(c) ==
    /\ polls[c] < MaxPolls
    /\ polls' = [polls EXCEPT ![c] = @ + 1]
    /\ requests' = [requests EXCEPT ![c] = RequestsAfterPoll(callState[c], @)]
    /\ callState' = [callState EXCEPT ![c] = StateAfterPoll(@, reply[c])]
    /\ outcome' = [outcome EXCEPT ![c] = OutcomeAfterPoll(callState[c], reply[c], @)]
    /\ UNCHANGED <<maps, reply, txVars, pollerVars, walletVars>>

\* The transport answers the request in flight.
TransportReply(c) ==
    /\ callState[c] = "Pending"
    /\ reply[c] = "none"
    /\ \E r \in Replies : reply' = [reply EXCEPT ![c] = r]
    /\ UNCHANGED <<callState, maps, polls, requests, outcome, txVars, pollerVars, walletVars>>

(***************************************************************************)
(* The filter poller: Created -> Polling -> Terminated(reason).            *)
(***************************************************************************)
Batches == {<<>>, <<"a", "b">>, <<"c">>}
MaxTicks == 4
ChannelCapacity == 2

IdlePoller ==
    /\ pollerState = "Created"
    /\ reason = "none"
    /\ responses = <<>>
    /\ channel = <<>>
    /\ observed = <<>>
    /\ errors = 0

\* A non-empty result is emitted as one batch; an empty one is not emitted.
\* (EmitAlways: every result is emitted.)
EmitAlways(ch, batch) == Append(ch, batch)
Emit(ch, batch) == IF batch # <<>> THEN Append(ch, batch) ELSE ch

StartPolling ==
    /\ pollerState = "Created"
    /\ pollerState' = "Polling"
    /\ UNCHANGED <<reason, responses, channel, observed, errors, txVars, callVars, walletVars>>

\* One tick: get_filter_changes answers with a batch.  The poller does not
\* poll while the consumer's channel is full.
Tick ==
    /\ pollerState = "Polling"
    /\ Len(responses) < MaxTicks
    /\ Len(channel) < ChannelCapacity
    /\ \E batch \in Batches :
        /\ responses' = Append(responses, batch)
        /\ channel' = Emit(channel, batch)
    /\ UNCHANGED <<pollerState, reason, observed, errors, txVars, callVars, walletVars>>

ConsumerReceives ==
    /\ reason # "ConsumerDropped"
    /\ channel # <<>>
    /\ observed' = Append(observed, Head(channel))
    /\ channel' = Tail(channel)
    /\ UNCHANGED <<pollerState, reason, responses, errors, txVars, callVars, walletVars>>

\* The transport reports an error: surfaced once, then the poller terminates.
TransportFails ==
    /\ pollerState = "Polling"
    /\ pollerState' = "Terminated"
    /\ reason' = "TransportError"
    /\ errors' = errors + 1
    /\ UNCHANGED <<responses, channel, observed, txVars, callVars, walletVars>>

\* The node no longer knows the filter: terminated without an error.
FilterNotFound ==
    /\ pollerState = "Polling"
    /\ pollerState' = "Terminated"
    /\ reason' = "Uninstalled"
    /\ UNCHANGED <<responses, channel, observed, errors, txVars, callVars, walletVars>>

\* The consumer's receiving side is gone.
ConsumerDrops ==
    /\ pollerState = "Polling"
    /\ pollerState' = "Terminated"
    /\ reason' = "ConsumerDropped"
    /\ UNCHANGED <<responses, channel, observed, errors, txVars, callVars, walletVars>>

(***************************************************************************)
(* The wallet-integrated provider and SendableTx.                          *)
(***************************************************************************)
RequiredFields == {"chain_id", "nonce", "gas_pricing", "gas_limit"}
Signers == {"none", "accepts", "rejects"}

\* SendableTx: Builder(TransactionRequest), which may miss fields, or
\* Envelope(TxEnvelope), which is fully formed.
Sendables ==
    {[kind |-> "Builder", fields |-> fs] : fs \in SUBSET RequiredFields}
    \cup {[kind |-> "Envelope", fields |-> RequiredFields]}

\* The provider call that fills a field.
FillCall(f) ==
    CASE f = "chain_id" -> "eth_chainId"
      [] f = "nonce" -> "eth_getTransactionCount"
      [] f = "gas_pricing" -> "eth_gasPrice"
      [] OTHER -> "eth_estimateGas"

IdleWallet ==
    /\ given = [kind |-> "Envelope", fields |-> RequiredFields]
    /\ signer = "accepts"
    /\ req = RequiredFields
    /\ tried = {}
    /\ walletPc = "idle"
    /\ calls = <<>>
    /\ submitted = <<>>
    /\ walletResult = "none"

InitWallet ==
    /\ given \in Sendables
    /\ signer \in Signers
    /\ req = given.fields
    /\ tried = {}
    /\ walletPc = "idle"
    /\ calls = <<>>
    /\ submitted = <<>>
    /\ walletResult = "none"

\* Whether the filled request may go to the signer.
\* (FilledIgnoringChainId: the chain id left out of the test.)
FilledIgnoringChainId(fields) == RequiredFields \ {"chain_id"} \subseteq fields
Filled(fields) == RequiredFields \subseteq fields

SendTransaction ==
    /\ walletPc = "idle"
    /\ walletPc' = IF given.kind = "Envelope" THEN "submitting" ELSE "filling"
    /\ UNCHANGED <<given, signer, req, tried, calls, submitted, walletResult,
                   txVars, callVars, pollerVars>>

\* Fill one unset field by a provider call, which answers or does not.
FillField ==
    /\ walletPc = "filling"
    /\ \E f \in RequiredFields \ (req \cup tried), answered \in BOOLEAN :
        /\ calls' = Append(calls, FillCall(f))
        /\ tried' = tried \cup {f}
        /\ req' = IF answered THEN req \cup {f} ELSE req
    /\ UNCHANGED <<given, signer, walletPc, submitted, walletResult,
                   txVars, callVars, pollerVars>>

FillDone ==
    /\ walletPc = "filling"
    /\ RequiredFields \subseteq req \cup tried
    /\ walletPc' = IF Filled(req) THEN "signing" ELSE "done"
    /\ walletResult' = IF Filled(req) THEN walletResult ELSE "MissingRequiredField"
    /\ UNCHANGED <<given, signer, req, tried, calls, submitted, txVars, callVars, pollerVars>>

Sign ==
    /\ walletPc = "signing"
    /\ walletPc' = IF signer = "accepts" THEN "submitting" ELSE "done"
    /\ walletResult' =
        CASE signer = "accepts" -> walletResult
          [] signer = "rejects" -> "SignerRejected"
          [] OTHER -> "MissingRequiredField"
    /\ UNCHANGED <<given, signer, req, tried, calls, submitted, txVars, callVars, pollerVars>>

\* eth_sendRawTransaction with the signed envelope.
SubmitRaw ==
    /\ walletPc = "submitting"
    /\ calls' = Append(calls, "eth_sendRawTransaction")
    /\ submitted' = Append(submitted, req)
    /\ \E accepted \in BOOLEAN :
        walletResult' = IF accepted THEN "Ok" ELSE "TransportFailure"
    /\ walletPc' = "done"
    /\ UNCHANGED <<given, signer, req, tried, txVars, callVars, pollerVars>>

(***************************************************************************)
(* Specifications: one per component, the others at rest.                  *)
(***************************************************************************)
NextTx ==
    \/ Serialize
    \/ NodeResponse
    \/ Deserialize
    \/ IsLegacyGas
    \/ IntoRequest
    \/ CallResponse
    \/ CallResponseAny

Init == InitTx /\ IdleCall /\ IdlePoller /\ IdleWallet

Spec == Init /\ [][NextTx]_vars

NextCall == \E c \in Calls : Map(c) \/ Poll(c) \/ TransportReply(c)

CallInit == IdleTx /\ IdleCall /\ IdlePoller /\ IdleWallet

CallSpec == CallInit /\ [][NextCall]_vars

NextPoller ==
    \/ StartPolling
    \/ Tick
    \/ ConsumerReceives
    \/ TransportFails
    \/ FilterNotFound
    \/ ConsumerDrops

PollerInit == IdleTx /\ IdleCall /\ IdlePoller /\ IdleWallet

PollerSpec == PollerInit /\ [][NextPoller]_vars

NextWallet ==
    \/ SendTransaction
    \/ FillField
    \/ FillDone
    \/ Sign
    \/ SubmitRaw

WalletInit == IdleTx /\ IdleCall /\ IdlePoller /\ InitWallet

WalletSpec == WalletInit /\ [][NextWallet]_vars

(***************************************************************************)
(* Properties of the transaction record.                                   *)
(***************************************************************************)
Mined(t) == t.block_hash.some /\ t.block_number.some /\ t.transaction_index.some
Pending(t) == ~t.block_hash.some /\ ~t.block_number.some /\ ~t.transaction_index.some
JointPresence(t) == Mined(t) \/ Pending(t)

\* The order the encoder writes the members in.
WireOrder ==
    <<"type", "chainId", "nonce", "gasPrice", "gas", "maxFeePerGas", "maxPriorityFeePerGas",
      "maxFeePerBlobGas", "to", "value", "accessList", "authorizationList",
      "blobVersionedHashes", "input", "r", "s", "v", "yParity", "hash", "blockHash",
      "blockNumber", "transactionIndex", "from">>
Rank(key) == CHOOSE i \in 1..Len(WireOrder) : WireOrder[i] = key

\* A canonical encoded form: the members in the encoder's order, the three
\* block members written (null when unset), one pricing family, a parity bit
\* under yParity and never as "v":"0x0"/"0x1".
Canonical(j) ==
    /\ \A i \in 1..(Len(j) - 1) : Rank(j[i].key) < Rank(j[i + 1].key)
    /\ \A key \in BlockKeys : HasKey(j, key)
    /\ ~(HasKey(j, "gasPrice") /\ HasKey(j, "maxFeePerGas"))
    /\ HasKey(j, "v") => Quantity(j, "v") \notin {0, 1}

\* C1: serializing a Transaction and deserializing the result gives the
\* Transaction back, for every variant, mined or pending; and deserializing a
\* canonical encoded form and serializing the result gives the same members,
\* in the same order, with the same strings.
RoundTrip ==
    /\ (origin = "encoded" /\ decoded.st # "none") => (decoded.st = "ok" /\ decoded.t = tx)
    /\ (decoded.st = "ok" /\ Canonical(wire)) => SerializeTransaction(decoded.t) = wire

RoundTripWitness ==
    /\ origin = "encoded"
    /\ decoded.st = "ok"
    /\ tx.tx.type = "Eip7702"
    /\ tx.tx.parity = [kind |-> "Eip155", v |-> 36]
    /\ Mined(tx)

\* The transactions of t's variant that differ from t in the other fields.
SameVariant(t) ==
    {Transaction(Envelope(t.tx.type, r, p), bh, t.block_number, t.transaction_index, a) :
        r \in TxKinds, p \in Parities, bh \in BlockHashes, a \in Addresses}

\* C2: is_legacy_gas() is true exactly for Legacy and Eip2930, false for
\* Eip1559, Eip4844 and Eip7702, whatever the other fields hold.
LegacyGasIffVariant ==
    result.op = "is_legacy_gas" =>
        /\ result.r = TRUE <=> result.of.tx.type \in {"Legacy", "Eip2930"}
        /\ result.r = FALSE <=> result.of.tx.type \in {"Eip1559", "Eip4844", "Eip7702"}
        /\ \A t \in SameVariant(result.of) : is_legacy_gas(t) = result.r

LegacyGasWitness ==
    /\ result.op = "is_legacy_gas"
    /\ result.of.tx.type = "Eip2930"
    /\ result.r = TRUE

\* C3: into_request populates exactly one pricing family: gas_price and no
\* max_fee_per_gas for a legacy-gas transaction (Legacy, Eip2930),
\* max_fee_per_gas and no gas_price for the others, also when the decoded JSON
\* carried a gasPrice member beside maxFeePerGas.
OnePricingFamily ==
    result.op = "into_request" =>
        /\ is_legacy_gas(result.of) <=> result.of.tx.type \in {"Legacy", "Eip2930"}
        /\ is_legacy_gas(result.of) =>
                result.r.gas_price.some /\ ~result.r.max_fee_per_gas.some
        /\ ~is_legacy_gas(result.of) =>
                ~result.r.gas_price.some /\ result.r.max_fee_per_gas.some
        /\ ~(result.r.gas_price.some /\ result.r.max_fee_per_gas.some)

OnePricingFamilyWitness ==
    /\ origin = "node"
    /\ HasKey(wire, "gasPrice") /\ HasKey(wire, "maxFeePerGas")
    /\ decoded.st = "ok"
    /\ result.op = "into_request"
    /\ result.of = decoded.t
    /\ result.of.tx.type = "Eip1559"

\* C4 as stated: the key is chosen by the envelope variant alone, v for Legacy
\* and Eip2930, yParity for Eip1559, Eip4844 and Eip7702.
KeyChosenByVariant ==
    origin = "encoded" =>
        /\ tx.tx.type \in {"Legacy", "Eip2930"} =>
                HasKey(wire, "v") /\ ~HasKey(wire, "yParity")
        /\ tx.tx.type \in {"Eip1559", "Eip4844", "Eip7702"} =>
                HasKey(wire, "yParity") /\ ~HasKey(wire, "v")

\* C4 (amended): the key the recovery id is written under is chosen by the
\* representation of the signature's parity and by nothing else: yParity for
\* Parity::Parity(bool), v for Parity::Eip155 and Parity::NonEip155, in every
\* envelope variant; exactly one of the two keys is written; and two
\* transactions whose parities have the same representation use the same key.
KeyChosenByParityRepresentation ==
    origin = "encoded" =>
        /\ HasKey(wire, "v") # HasKey(wire, "yParity")
        /\ HasKey(wire, "yParity") <=> tx.tx.parity.kind = "Parity"
        /\ \A p \in Parities :
                p.kind = tx.tx.parity.kind =>
                    HasKey(SerializeEnvelope(Envelope(tx.tx.type, tx.tx.to, p)), "v")
                        = HasKey(wire, "v")
        /\ \A ty \in TxTypes :
                HasKey(SerializeEnvelope(Envelope(ty, tx.tx.to, tx.tx.parity)), "v")
                    = HasKey(wire, "v")

KeyChosenWitness ==
    /\ origin = "encoded"
    /\ tx.tx.type = "Eip7702"
    /\ tx.tx.parity = [kind |-> "Eip155", v |-> 36]
    /\ HasKey(wire, "v")

\* C5 as stated: the three block fields of every decoded Transaction are
\* jointly present or jointly absent.
DecodedPresenceInvariant == decoded.st = "ok" => JointPresence(decoded.t)

\* What the input holds for the three block members.
WireMined(j) ==
    /\ Get(j, "blockHash").k = "str"
    /\ Get(j, "blockNumber").k = "hex"
    /\ Get(j, "transactionIndex").k = "hex"
WirePending(j) ==
    /\ Get(j, "blockHash").k \in {"absent", "null"}
    /\ Get(j, "blockNumber").k \in {"absent", "null"}
    /\ Get(j, "transactionIndex").k \in {"absent", "null"}

\* C5 (amended): each of block_hash, block_number and transaction_index of a
\* decoded Transaction is Some exactly when the input holds a non-null member
\* for it, each on its own; so the three are jointly present or jointly absent
\* exactly when the input's three members are.
DecodedPresenceFollowsInput ==
    decoded.st = "ok" =>
        /\ decoded.t.block_hash.some <=> Get(wire, "blockHash").k = "str"
        /\ decoded.t.block_number.some <=> Get(wire, "blockNumber").k = "hex"
        /\ decoded.t.transaction_index.some <=> Get(wire, "transactionIndex").k = "hex"
        /\ JointPresence(decoded.t) <=> (WireMined(wire) \/ WirePending(wire))

DecodedPresenceWitness ==
    /\ origin = "node"
    /\ decoded.st = "ok"
    /\ WireMined(wire)
    /\ ~HasKey(wire, "gasPrice")

AccessorsReadFields ==
    result.op = "response" =>
        /\ result.from = result.of.from
        /\ result.tx_hash = result.of.tx.hash
        /\ result.inst = "TxEnvelope" =>
            /\ result.of.tx.to.kind = "Create" => result.to = NoneS
            /\ result.of.tx.to.kind = "Call" => result.to = Some(result.of.tx.to.addr)
        /\ result.inst = "AnyTxEnvelope" => result.to = result.of.tx.to
        /\ result.value = result.of.tx.value
        /\ result.input = result.of.tx.input
        /\ result.inst = "TxEnvelope" =>
            /\ result.gas = result.of.tx.gas_limit
            /\ \A bh \in BlockHashes, bn \in BlockNumbers, ti \in TransactionIndexes :
                  TransactionResponseOf(
                      Transaction(result.of.tx, bh, bn, ti, result.of.from))
                  = [result EXCEPT !.of = Transaction(result.of.tx, bh, bn, ti, result.of.from)]
        /\ result.inst = "AnyTxEnvelope" =>
            /\ result.gas = result.of.tx.gas
            /\ \A bh \in BlockHashes, bn \in BlockNumbers, ti \in TransactionIndexes :
                  AnyTransactionResponseOf(
                      Transaction(result.of.tx, bh, bn, ti, result.of.from))
                  = [result EXCEPT !.of = Transaction(result.of.tx, bh, bn, ti, result.of.from)]

AccessorsWitness ==
    /\ result.op = "response"
    /\ result.inst = "TxEnvelope"
    /\ result.of.from # recover_signer(result.of.tx)
    /\ result.of.tx.to.kind = "Create"
    /\ ~result.to.some
    /\ Mined(result.of)

(***************************************************************************)
(* Properties of the provider components.                                  *)
(***************************************************************************)
\* C7: the transport receives at most one request for a call builder, however
\* often it is mapped and polled; map changes neither the builder's state nor
\* what was sent; and once Resolved, the builder stays Resolved with the same
\* value or error and no further request.
ExecutedAtMostOnce ==
    /\ [](\A c \in Calls : requests[c] <= 1)
    /\ [][\A c \in Calls :
            maps'[c] # maps[c] =>
                /\ callState'[c] = callState[c]
                /\ requests'[c] = requests[c]
                /\ outcome'[c] = outcome[c]]_vars
    /\ [][\A c \in Calls :
            callState[c] = "Resolved" =>
                /\ callState'[c] = "Resolved"
                /\ outcome'[c] = outcome[c]
                /\ requests'[c] = requests[c]]_vars

ExecutedOnceWitness ==
    \E c \in Calls :
        /\ maps[c] = 2
        /\ polls[c] = 3
        /\ callState[c] = "Resolved"
        /\ requests[c] = 1

NonEmpty(batch) == batch # <<>>

\* C8: the batches the consumer has received, followed by those emitted and
\* not yet received, are exactly the non-empty responses, each once,
\* unmodified and in poll order; an empty response is no error.
EmitsNonEmptyInPollOrder ==
    /\ observed \o channel = SelectSeq(responses, NonEmpty)
    /\ reason # "TransportError" => errors = 0

EmitsWitness ==
    /\ responses = << <<>>, <<"a", "b">>, <<>>, <<"c">> >>
    /\ observed = << <<"a", "b">>, <<"c">> >>

====
